---------------------------- MODULE Spec2Model ----------------------------
(***************************************************************************)
(* A model of lib/discoverer.js (loopback-discovery): the Discoverer       *)
(* object, the definition files and the registry file it reads and writes, *)
(* and the asynchronous discoverModels pipeline.                           *)
(*                                                                         *)
(* JavaScript values are encoded as follows.  A scalar position holds a    *)
(* string; the strings "undefined", "null", "true" and "false" stand for   *)
(* the JavaScript values of those names.  An object position holds a       *)
(* record; NoObject stands for an absent (undefined) object.  A JavaScript *)
(* object used as an ordered map (model.properties) is a sequence of       *)
(* [key, def] pairs in insertion order, which is the order of for-in and   *)
(* of JSON.stringify for string keys.  A definition file is held as the    *)
(* JSON value it contains: an absent field and an undefined field are the  *)
(* same JSON text, so both are the value Undefined / NoObject.             *)
(***************************************************************************)
EXTENDS Integers, Sequences, FiniteSets, TLC

VARIABLES
  app,          \* this.app: the application bound by setApp, or NoObject
  appPath,      \* this.appPath
  modelConfig,  \* this.modelConfig: the registry in memory, or NoObject
  dsName,       \* this.dsName
  dataSource,   \* this.dataSource: [app, key] of the bound data source
  fs,           \* the file store: [dirs, files]
  regFile,      \* server/model-config.json on disk
  pc,           \* where the discoverModels run (or the process) stands
  options,      \* the caller's options object
  discovered,   \* the tables discoverModelDefinitions answered with
  tables,       \* the filtered table list held by the run
  results,      \* async.mapSeries' results array
  pending,      \* index in tables of the outstanding build request, 0: none
  cbLog,        \* the invocations of the caller's callback, in order
  call          \* the last method called and what it reported or threw

discVars == <<app, appPath, modelConfig, dsName, dataSource>>
envVars  == <<fs, regFile>>
runVars  == <<pc, options, discovered, tables, results, pending, cbLog>>
vars     == <<app, appPath, modelConfig, dsName, dataSource, fs, regFile,
              pc, options, discovered, tables, results, pending, cbLog, call>>

(***************************************************************************)
(* Bounds of the model.                                                    *)
(***************************************************************************)
MaxProps  == 2   \* properties of a discovered model
MaxTables == 2   \* tables the schema source answers with; allow-list length
MaxModels == 2   \* models handed to updateModels

(***************************************************************************)
(* JavaScript values.                                                      *)
(***************************************************************************)
Undefined == "undefined"
Null      == "null"
JSTrue    == "true"
JSFalse   == "false"
NoObject  == [undefined |-> TRUE]
NoFile    == [nofile |-> TRUE]

\* Error values: the message, and for 'Tables not found' the names joined
\* into it.  NoError is the null a callback gets on success.
Error(msg)   == [msg |-> msg, names |-> <<>>]
NoError      == Error("null")

\* String.prototype.toLowerCase on the strings of the model.
ToLowerCase(s) ==
  CASE s = "String"  -> "string"
    [] s = "Number"  -> "number"
    [] s = "Date"    -> "date"
    [] s = "DB"      -> "db"
    [] s = "Db"      -> "db"
    [] s = "Memory"  -> "memory"
    [] OTHER         -> s

Range(s) == {s[i] : i \in 1..Len(s)}
NoDup(s) == \A i, j \in 1..Len(s) : i # j => s[i] # s[j]
SeqsUpTo(S, n) == UNION {[1..k -> S] : k \in 0..n}

(***************************************************************************)
(* model.properties: an object used as an insertion-ordered map.           *)
(***************************************************************************)
Keys(props) == [i \in 1..Len(props) |-> props[i].key]
HasKey(props, k) == \E i \in 1..Len(props) : props[i].key = k
Get(props, k) == props[CHOOSE i \in 1..Len(props) : props[i].key = k].def
\* props[k] = def: an existing key keeps its place, a new key goes last.
Put(props, k, d) ==
  IF HasKey(props, k)
  THEN [i \in 1..Len(props) |->
          IF props[i].key = k THEN [key |-> k, def |-> d] ELSE props[i]]
  ELSE Append(props, [key |-> k, def |-> d])
\* delete props[k]
Delete(props, k) == SelectSeq(props, LAMBDA e : e.key # k)

(***************************************************************************)
(* The inputs of saveModel: discovered model definitions.                  *)
(***************************************************************************)
TypeNames   == {"String", "Number"}
PropNames   == {"userid", "userId", "user_id"}
\* The tables of the database, and the model name discovery derives from a
\* table name (the table PaymentMethod is discovered as Paymentmethod).
TableNames  == {"PaymentMethod", "Customer", "Orders"}
ClassName(table) == IF table = "PaymentMethod" THEN "Paymentmethod" ELSE table
ModelNames  == TableNames \cup {ClassName(t) : t \in TableNames}
AppPath     == "/app"
OtherAppPath == "/app2"
DefaultDir  == "common/models"
OutputDir   == "out"
\* path.join(appPath, dir) and path.join(modelsPath, name + '.json')
JoinPath(a, b) == <<a, b>>
Dirs        == {JoinPath(a, d) : a \in {AppPath, OtherAppPath},
                                 d \in {DefaultDir, OutputDir}}
ModelsDir   == JoinPath(AppPath, DefaultDir)
Paths       == {JoinPath(d, n) : d \in Dirs, n \in ModelNames}

PropertyDefs ==
  [type : TypeNames, mysql : {NoObject} \cup [columnName : PropNames]]

\* A table's columns have pairwise distinct names, and an object's keys are
\* distinct.
PropertyLists ==
  {ps \in SeqsUpTo([key : PropNames, def : PropertyDefs], MaxProps) :
     /\ NoDup(Keys(ps))
     /\ \A i, j \in 1..Len(ps) :
          (i # j /\ ps[i].def.mysql # NoObject /\ ps[j].def.mysql # NoObject)
            => ps[i].def.mysql.columnName # ps[j].def.mysql.columnName}

SettingsOf(table, rule) ==
  [mysql |-> IF table = Undefined THEN NoObject ELSE [table |-> table],
   someCustomRule |-> rule]

\* What discoverAndBuildModels hands over for a table discovered under
\* `name`: no hand-written settings, no other top-level field.
DiscoveredModels(name) ==
  {[name |-> name, properties |-> ps, settings |-> SettingsOf(t, Undefined),
    relations |-> Undefined] :
     ps \in PropertyLists, t \in {Undefined, "PaymentMethod", name}}

\* Definition files a user may have on disk before a run.
ExistingFiles ==
  {[name |-> n,
    properties |-> <<[key |-> "legacy",
                      def |-> [type |-> "String", mysql |-> NoObject]]>>,
    settings |-> SettingsOf(Undefined, "deny"),
    relations |-> r] : n \in {"Paymentmethod", "PaymentMethod"},
                       r \in {"orders"}}
    \cup
  {[name |-> "PaymentMethod", properties |-> <<>>,
    settings |-> SettingsOf("PaymentMethod", Undefined),
    relations |-> Undefined]}

(***************************************************************************)
(* utils.fileExists / utils.mkDir (lib/utils.js).                          *)
(***************************************************************************)
FileExists(f, path) == path \in DOMAIN f.files
DirExists(f, dir) == dir \in f.dirs
MkDir(f, dir) == [f EXCEPT !.dirs = @ \cup {dir}]

\* fs.readFileSync + JSON.parse, and JSON.stringify + fs.writeFileSync: the
\* store maps the paths of the files that exist to the JSON value each holds.
FileAt(f, path) == IF path \in DOMAIN f.files THEN f.files[path] ELSE NoFile
WriteFile(f, path, value) ==
  [f EXCEPT !.files = [q \in DOMAIN f.files \cup {path} |->
                         IF q = path THEN value ELSE f.files[q]]]

(***************************************************************************)
(* Discoverer.prototype.casePropertiesDataType                             *)
(***************************************************************************)
\* A variant that leaves the type names as discovered.
casePropertiesDataType_Keep(props) == props

casePropertiesDataType(props) ==
  [i \in 1..Len(props) |->
     [props[i] EXCEPT !.def.type = ToLowerCase(props[i].def.type)]]

(***************************************************************************)
(* Discoverer.prototype.saveModel                                          *)
(***************************************************************************)
\* A variant that keeps the discovered name.
ForcedName_Keep(model) == model.name

\* The table-name rule (lines 105-113).
ForcedName(model) ==
  IF /\ model.settings.mysql # NoObject
     /\ model.settings.mysql.table # Undefined
     /\ model.name # model.settings.mysql.table
  THEN model.settings.mysql.table
  ELSE model.name

\* The for-in loop over model.properties (lines 114-142).  `keys` is the key
\* list taken when the loop starts.  A key the loop adds is either not
\* visited or visited with p === columnName, which changes nothing; a key
\* that is gone when its turn comes is skipped.  exit: process.exit(1).
RECURSIVE ReconcileColumns(_, _, _)
ReconcileColumns(props, keys, i) ==
  IF i > Len(keys) THEN [properties |-> props, exit |-> FALSE]
  ELSE LET p == keys[i] IN
    IF ~HasKey(props, p) THEN ReconcileColumns(props, keys, i + 1)
    ELSE LET d == Get(props, p) IN
      IF d.mysql = NoObject THEN [properties |-> props, exit |-> TRUE]
      ELSE LET columnName == d.mysql.columnName IN
        IF p # columnName
        THEN ReconcileColumns(Delete(Put(props, columnName, d), p), keys, i + 1)
        ELSE ReconcileColumns(props, keys, i + 1)

\* A variant that adds the discovered properties to those of the file.
MergedModel_Append(exist, original, model) ==
  IF exist THEN [original EXCEPT !.properties = @ \o model.properties]
  ELSE model

\* A variant that writes the discovered model over the existing file.
MergedModel_Replace(exist, original, model) == model

\* The model that is written (lines 148-154): the discovered model, or the
\* existing file with its properties replaced.
MergedModel(exist, original, model) ==
  IF exist THEN [original EXCEPT !.properties = model.properties] ELSE model

\* A variant that takes any overwrite other than false as a request.
ShouldWrite_NotFalse(exist, overwrite) == ~exist \/ overwrite # JSFalse

\* Whether saveModel writes (line 146).
ShouldWrite(exist, overwrite) == ~exist \/ overwrite = JSTrue

\* The whole call.  ioFails: fs.readFileSync / fs.writeFileSync throws.
\* Answers the file store after the call, the caller's model object after
\* the in-place changes, and what the callback received:
\* outcome "written" is cb(null, model), "skipped" cb(null, null), "error"
\* cb(err), and "exit" is process.exit(1), after which no callback runs.
SaveModelCall(f, modelsPath, model, overwrite, ioFails) ==
  LET name1     == ForcedName(model)
      loop      == ReconcileColumns(model.properties, Keys(model.properties), 1)
      model1    == [model EXCEPT !.name = name1, !.properties = loop.properties]
      modelPath == JoinPath(modelsPath, name1)
      exist     == FileExists(f, modelPath)
      model2    == [model1 EXCEPT !.properties = casePropertiesDataType(@)]
      written   == MergedModel(exist, FileAt(f, modelPath), model2)
  IN
  IF model = NoObject   \* model.settings throws a TypeError, caught
  THEN [fs |-> f, object |-> model, outcome |-> "error",
        err |-> Error("TypeError"), result |-> NoObject, path |-> NoObject]
  ELSE IF loop.exit
  THEN [fs |-> f, object |-> model1, outcome |-> "exit",
        err |-> NoError, result |-> NoObject, path |-> modelPath]
  ELSE IF ~ShouldWrite(exist, overwrite)
  THEN [fs |-> f, object |-> model1, outcome |-> "skipped",
        err |-> NoError, result |-> NoObject, path |-> modelPath]
  ELSE IF ioFails \/ ~DirExists(f, modelsPath)
  THEN [fs |-> f, object |-> model2, outcome |-> "error",
        err |-> Error("IOError"), result |-> NoObject, path |-> modelPath]
  ELSE [fs |-> WriteFile(f, modelPath, written), object |-> model2,
        outcome |-> "written", err |-> NoError, result |-> written,
        path |-> modelPath]

(***************************************************************************)
(* The state after construction (lines 9-15), with nothing running.        *)
(***************************************************************************)
NoCall == [outcome |-> "none"]
\* options.tablesList: undefined, null or an array of names.
NoList      == [kind |-> "undefined", items |-> <<>>]
NullList    == [kind |-> "null", items |-> <<>>]
ListOf(ns)  == [kind |-> "array", items |-> ns]
EmptyOptions ==
  [appPath |-> Undefined, dataSource |-> Undefined, tablesList |-> NoList,
   overwrite |-> Undefined, outputDir |-> Undefined, schema |-> Undefined]
NoReply == [err |-> NoError, tables |-> <<>>]

Constructed ==
  /\ app = NoObject
  /\ appPath = Null
  /\ modelConfig = NoObject
  /\ dsName = Null
  /\ dataSource = [app |-> Null, key |-> Null]   \* null

Idle ==
  /\ pc = "idle"
  /\ options = EmptyOptions
  /\ discovered = NoReply
  /\ tables = <<>>
  /\ results = <<>>
  /\ pending = 0
  /\ cbLog = <<>>

(***************************************************************************)
(* SpecSave: saveModel called on a file store.                             *)
(***************************************************************************)
NoFiles == [p \in {} |-> NoFile]
FileStores ==
  {[dirs |-> {}, files |-> NoFiles]} \cup
  {[dirs |-> {ModelsDir},
    files |-> [p \in {JoinPath(ModelsDir, n) : n \in DOMAIN g} |-> g[p[2]]]] :
     g \in UNION {[N -> ExistingFiles] :
                    N \in SUBSET {"Paymentmethod", "PaymentMethod"}}}

InitSave ==
  /\ Constructed
  /\ Idle
  /\ fs \in FileStores
  /\ regFile = NoObject
  /\ call = NoCall

SaveModel(modelsPath, model, overwrite, ioFails) ==
  /\ LET r == SaveModelCall(fs, modelsPath, model, overwrite, ioFails) IN
       /\ fs' = r.fs
       /\ call' = [modelsPath |-> modelsPath, model |-> model,
                   overwrite |-> overwrite, before |-> FileAt(fs, r.path),
                   path |-> r.path, object |-> r.object,
                   outcome |-> r.outcome, err |-> r.err, result |-> r.result]
       /\ pc' = IF r.outcome = "exit" THEN "exited" ELSE pc
  /\ UNCHANGED <<discVars, regFile, options, discovered, tables, results,
                 pending, cbLog>>

\* A first call, on a freshly discovered model.
FirstSave ==
  /\ call.outcome = "none"
  /\ \E model \in DiscoveredModels("Paymentmethod"),
        overwrite \in {JSTrue, JSFalse, Undefined},
        ioFails \in BOOLEAN :
          SaveModel(ModelsDir, model, overwrite, ioFails)

\* What discovery hands over when the table of the model `first` is
\* discovered again with its schema unchanged: the same name and properties.
Rediscovered(first) ==
  {m \in {[first EXCEPT !.settings = SettingsOf(t, Undefined)] :
            t \in {Undefined, "PaymentMethod", first.name}} :
     ForcedName(m) = ForcedName(first)}

\* A second call, after one that created the definition file, on a fresh
\* discovery of the same table.
SecondSave ==
  /\ call.outcome = "written"
  /\ call.before = NoFile
  /\ \E model \in Rediscovered(call.model),
        overwrite \in {JSTrue, JSFalse, Undefined},
        ioFails \in BOOLEAN :
          SaveModel(call.modelsPath, model, overwrite, ioFails)

NextSave ==
  \/ FirstSave
  \/ SecondSave

SpecSave == InitSave /\ [][NextSave]_vars


(***************************************************************************)
(* Properties of saveModel, checked under SpecSave.                        *)
(***************************************************************************)
Called == call.outcome # "none"
Wrote  == call.outcome = "written"
WrittenFile == FileAt(fs, call.path)

\* The discovered property whose definition a written property carries:
\* columns are distinct, so the column name identifies it.
CarriedFrom(model, d) ==
  {j \in 1..Len(model.properties) : model.properties[j].def.mysql = d.mysql}

\* C3: when saveModel writes with overwrite=true over an existing file, the
\* file's properties are the reconciled discovered properties (each keyed by
\* its column name, carrying a discovered definition with its type tag
\* canonicalized, none of the old file's properties left) and its name,
\* settings and other top-level fields are those of the existing file.
C3_MergeKeepsOtherFields ==
  (Wrote /\ call.overwrite = JSTrue /\ call.before # NoFile) =>
    /\ WrittenFile.name = call.before.name
    /\ WrittenFile.settings = call.before.settings
    /\ WrittenFile.relations = call.before.relations
    /\ WrittenFile.properties = call.object.properties
    /\ \A i \in 1..Len(WrittenFile.properties) :
         LET e == WrittenFile.properties[i] IN
           /\ e.def.mysql # NoObject
           /\ e.key = e.def.mysql.columnName
           /\ \E j \in CarriedFrom(call.model, e.def) :
                e.def.type = ToLowerCase(call.model.properties[j].def.type)

C3_Witness ==
  /\ Wrote /\ call.overwrite = JSTrue /\ call.before # NoFile
  /\ call.before.settings.someCustomRule = "deny"
  /\ call.before.relations = "orders"
  /\ Len(WrittenFile.properties) = 2
  /\ WrittenFile.properties # call.before.properties
  /\ WrittenFile.name # call.model.name

C7_NoDiscoveredKeyLeft ==
  Wrote =>
    \A j \in 1..Len(call.model.properties) :
      LET p == call.model.properties[j] IN
        (p.def.mysql # NoObject /\ p.key # p.def.mysql.columnName) =>
          /\ ~HasKey(WrittenFile.properties, p.key)
          /\ HasKey(WrittenFile.properties, p.def.mysql.columnName)

\* C8: after a successful write every property of the written file has the
\* lowercase form of the type name of the discovered property it carries,
\* for a new file and for a merge into an existing one.
CanonicalTags == {"string", "number"}

C8_WrittenTypesLowercase ==
  Wrote =>
    \A i \in 1..Len(WrittenFile.properties) :
      LET e == WrittenFile.properties[i] IN
        /\ e.def.type \in CanonicalTags
        /\ \E j \in CarriedFrom(call.model, e.def) :
             /\ call.model.properties[j].def.type \in TypeNames
             /\ e.def.type = ToLowerCase(call.model.properties[j].def.type)

C8_Witness ==
  /\ Wrote /\ call.before # NoFile
  /\ Len(WrittenFile.properties) = 2
  /\ WrittenFile.properties[1].def.type = "string"
  /\ WrittenFile.properties[2].def.type = "number"
  /\ \E e \in Range(call.before.properties) : e.def.type = "String"

\* C9: a model whose table override differs from its discovered name is
\* saved under the override name: whether it is skipped depends on the file
\* of the override name, the write goes to that file, and every other file,
\* the one of the discovered name included, stays as it was.
OverrideDiffers(c) ==
  /\ c.model.settings.mysql # NoObject
  /\ c.model.settings.mysql.table # c.model.name

C9_SavedUnderOverrideName ==
  [][(call'.outcome \in {"written", "skipped", "error"}
        /\ OverrideDiffers(call')) =>
       LET target == JoinPath(call'.modelsPath,
                              call'.model.settings.mysql.table) IN
         /\ call'.path = target
         /\ \A q \in Paths \ {target} : FileAt(fs', q) = FileAt(fs, q)
         /\ call'.outcome = "skipped" <=>
              (FileExists(fs, target) /\ call'.overwrite # JSTrue)
         /\ call'.outcome = "written" =>
              (FileAt(fs', target) = call'.result /\ call'.result # NoObject)]_vars

C9_Witness ==
  /\ Wrote /\ OverrideDiffers(call)
  /\ call.path = JoinPath(ModelsDir, "PaymentMethod")
  /\ call.before = NoFile
  /\ FileAt(fs, JoinPath(ModelsDir, "Paymentmethod")) \in ExistingFiles
  /\ WrittenFile.name = "PaymentMethod"

\* The step is a save of a model rediscovered with identical properties,
\* made after the save that created its definition file.
SavedAgain ==
  /\ call.outcome = "written" /\ call.before = NoFile
  /\ call'.outcome # "none" /\ call' # call
  /\ call'.model.properties = call.model.properties

\* C12: after a save that created the definition file of a newly discovered
\* model, a save with overwrite=true of a fresh discovery of the same table
\* with identical properties leaves that file, and the whole file store,
\* with exactly the content the first save wrote.
C12_MergeIdempotent ==
  [][(SavedAgain /\ call'.overwrite = JSTrue) =>
       /\ call'.path = call.path
       /\ call'.outcome \in {"written", "error"}
       /\ FileAt(fs', call.path) = call.result
       /\ fs' = fs
       /\ call'.outcome = "written" => call'.result = call.result]_vars

C12_Witness ==
  /\ Wrote /\ call.overwrite = JSTrue
  /\ call.before # NoFile /\ call.before \notin ExistingFiles
  /\ WrittenFile = call.before
  /\ call.model.name = "Paymentmethod" /\ WrittenFile.name = "PaymentMethod"
  /\ Len(WrittenFile.properties) = 2
  /\ \E j \in 1..2 : call.model.properties[j].key # WrittenFile.properties[j].key

\* C18 as stated: the model saveModel persists has exactly one property per
\* discovered property, keyed by that property's column name and carrying
\* that property's definition (its type tag canonicalized).
C18_NoPropertyLost ==
  (/\ Wrote
   /\ \A j \in 1..Len(call.model.properties) :
        call.model.properties[j].def.mysql # NoObject) =>
    /\ Len(WrittenFile.properties) = Len(call.model.properties)
    /\ \A j \in 1..Len(call.model.properties) :
         LET p == call.model.properties[j] IN
           /\ HasKey(WrittenFile.properties, p.def.mysql.columnName)
           /\ Get(WrittenFile.properties, p.def.mysql.columnName) =
                [p.def EXCEPT !.type = ToLowerCase(@)]


(***************************************************************************)
(* The applications on disk: what require(appPath + '/server/server.js')   *)
(* loads.  dataSources is in the key order of app.dataSources.             *)
(***************************************************************************)
Apps ==
  [a \in {AppPath, OtherAppPath} |->
     [path |-> a,
      dataSources |->
        IF a = AppPath
        THEN <<[key |-> "db", discovery |-> TRUE, database |-> "shop"],
               [key |-> "Memory", discovery |-> FALSE, database |-> Undefined]>>
        ELSE <<[key |-> "DB", discovery |-> TRUE, database |-> "crm"]>>]]

NoDataSource == [app |-> Null, key |-> Null]
\* The data source object this.dataSource refers to.
SourceOf(ds) ==
  CHOOSE src \in Range(Apps[ds.app].dataSources) : src.key = ds.key
Truthy(v) == v \notin {Undefined, Null, JSFalse, ""}

\* The fields of the Discoverer object, as one record.
This == [app |-> app, appPath |-> appPath, dsName |-> dsName,
         dataSource |-> dataSource]

(***************************************************************************)
(* Discoverer.prototype.setApp: answers the object after the call and the  *)
(* error thrown (NoError: none).                                           *)
(***************************************************************************)
setApp(this, path) ==
  IF path \in DOMAIN Apps
  THEN [this |-> [this EXCEPT !.app = Apps[path], !.appPath = path],
        err |-> NoError]
  ELSE [this |-> this, err |-> Error("No loopback application found")]

(***************************************************************************)
(* Discoverer.prototype.setDataSource                                      *)
(***************************************************************************)
\* The first key of app.dataSources equal to dsName ignoring case, 0: none.
MatchingSource(sources, name) ==
  LET hits == {i \in 1..Len(sources) :
                 ToLowerCase(name) = ToLowerCase(sources[i].key)}
  IN IF hits = {} THEN 0 ELSE CHOOSE i \in hits : \A j \in hits : i <= j

\* A variant without the check of the connector's discovery capability.
setDataSource_AnyConnector(this, name) ==
  IF ~Truthy(name)
  THEN [this |-> this, err |-> Error("Invalid data source.")]
  ELSE IF this.app = NoObject
  THEN [this |-> this, err |-> Error("Application not set.")]
  ELSE LET i == MatchingSource(this.app.dataSources, name) IN
    IF i = 0
    THEN [this |-> this, err |-> Error("Datasource not found in application.")]
    ELSE [this |-> [this EXCEPT
                      !.dsName = name,
                      !.dataSource = [app |-> this.app.path,
                                      key |-> this.app.dataSources[i].key]],
          err |-> NoError]

setDataSource(this, name) ==
  IF ~Truthy(name)
  THEN [this |-> this, err |-> Error("Invalid data source.")]
  ELSE IF this.app = NoObject
  THEN [this |-> this, err |-> Error("Application not set.")]
  ELSE LET i == MatchingSource(this.app.dataSources, name) IN
    IF i = 0
    THEN [this |-> this, err |-> Error("Datasource not found in application.")]
    ELSE IF ~this.app.dataSources[i].discovery
    THEN [this |-> this,
          err |-> Error("Data source connector do not support discovery.")]
    ELSE [this |-> [this EXCEPT
                      !.dsName = name,
                      !.dataSource = [app |-> this.app.path,
                                      key |-> this.app.dataSources[i].key]],
          err |-> NoError]

SetThis(this) ==
  /\ app' = this.app
  /\ appPath' = this.appPath
  /\ dsName' = this.dsName
  /\ dataSource' = this.dataSource

\* A call of a synchronous method: what was called and what it threw.
Returned(op, arg, err) ==
  [outcome |-> IF err = NoError THEN "returned" ELSE "threw",
   op |-> op, arg |-> arg, err |-> err]

SetApp(path) ==
  /\ pc = "idle"
  /\ SetThis(setApp(This, path).this)
  /\ call' = Returned("setApp", <<path>>, setApp(This, path).err)
  /\ UNCHANGED <<modelConfig, envVars, runVars>>

SetDataSource(name) ==
  /\ pc = "idle"
  /\ SetThis(setDataSource(This, name).this)
  /\ call' = Returned("setDataSource", <<name>>, setDataSource(This, name).err)
  /\ UNCHANGED <<modelConfig, envVars, runVars>>


(***************************************************************************)
(* Discoverer.prototype.discoverModels: the table filter (lines 194-208).  *)
(***************************************************************************)
\* Array.prototype.indexOf, counted from 1; 0: not found (JavaScript's -1).
IndexOf(list, x) ==
  LET hits == {i \in 1..Len(list) : list[i] = x}
  IN IF hits = {} THEN 0 ELSE CHOOSE i \in hits : \A j \in hits : i <= j

\* list.splice(idx, 1)
Splice(list, idx) ==
  [i \in 1..(Len(list) - 1) |-> IF i < idx THEN list[i] ELSE list[i + 1]]

\* A variant that keeps every table and only consumes the names.
RECURSIVE FilterTables_KeepAll(_, _, _)
FilterTables_KeepAll(tbls, list, i) ==
  IF i > Len(tbls) THEN [kept |-> <<>>, list |-> list]
  ELSE LET idx  == IndexOf(list, tbls[i].name)
           rest == FilterTables_KeepAll(
                     tbls, IF idx = 0 THEN list ELSE Splice(list, idx), i + 1)
       IN [kept |-> <<tbls[i]>> \o rest.kept, list |-> rest.list]

\* tables.filter(...) with the splice on options.tablesList: answers the
\* kept tables and what is left of the list.
RECURSIVE FilterTables(_, _, _)
FilterTables(tbls, list, i) ==
  IF i > Len(tbls) THEN [kept |-> <<>>, list |-> list]
  ELSE LET idx == IndexOf(list, tbls[i].name) IN
    IF idx = 0
    THEN FilterTables(tbls, list, i + 1)
    ELSE LET rest == FilterTables(tbls, Splice(list, idx), i + 1)
         IN [kept |-> <<tbls[i]>> \o rest.kept, list |-> rest.list]

HasList(opts) == opts.tablesList.kind = "array"

\* A variant that reports only the first name left.
NotFoundError_First(left) ==
  [msg |-> "Tables not found", names |-> SubSeq(left, 1, 1)]

\* new Error('Tables not found: ' + options.tablesList.join(', '))
NotFoundError(left) == [msg |-> "Tables not found", names |-> left]

(***************************************************************************)
(* discoverModels: the persisting phase (lines 220-244).                   *)
(***************************************************************************)
\* async.eachSeries(models, saveModel): one model after the other, stopping
\* at the first error.  failAt: the index of the save whose file access
\* throws, 0: none.
\* A variant that leaves the models whose file was skipped out of the list.
RECURSIVE EachSeriesSave_DropSkipped(_, _, _, _, _, _)
EachSeriesSave_DropSkipped(f, models, i, modelsPath, overwrite, failAt) ==
  IF i > Len(models)
  THEN [fs |-> f, models |-> models, outcome |-> "ok", err |-> NoError]
  ELSE LET r  == SaveModelCall(f, modelsPath, models[i], overwrite, i = failAt)
           ms == [models EXCEPT ![i] = r.object]
       IN IF r.outcome \in {"exit", "error"}
          THEN [fs |-> r.fs, models |-> ms, outcome |-> r.outcome, err |-> r.err]
          ELSE IF r.outcome = "skipped"
          THEN EachSeriesSave_DropSkipped(
                 r.fs, SubSeq(ms, 1, i - 1) \o SubSeq(ms, i + 1, Len(ms)), i,
                 modelsPath, overwrite, failAt)
          ELSE EachSeriesSave_DropSkipped(r.fs, ms, i + 1, modelsPath,
                                          overwrite, failAt)

\* A variant that goes on to the next model after a failed save and reports
\* the first error at the end.
RECURSIVE EachSeriesSave_Continue(_, _, _, _, _, _)
EachSeriesSave_Continue(f, models, i, modelsPath, overwrite, failAt) ==
  IF i > Len(models)
  THEN [fs |-> f, models |-> models, outcome |-> "ok", err |-> NoError]
  ELSE LET r  == SaveModelCall(f, modelsPath, models[i], overwrite, i = failAt)
           ms == [models EXCEPT ![i] = r.object]
       IN IF r.outcome = "exit"
          THEN [fs |-> r.fs, models |-> ms, outcome |-> r.outcome, err |-> r.err]
          ELSE LET rest == EachSeriesSave_Continue(r.fs, ms, i + 1, modelsPath,
                                                   overwrite, failAt)
               IN IF r.outcome = "error" /\ rest.outcome # "exit"
                  THEN [rest EXCEPT !.outcome = "error", !.err = r.err]
                  ELSE rest

RECURSIVE EachSeriesSave(_, _, _, _, _, _)
EachSeriesSave(f, models, i, modelsPath, overwrite, failAt) ==
  IF i > Len(models)
  THEN [fs |-> f, models |-> models, outcome |-> "ok", err |-> NoError]
  ELSE LET r  == SaveModelCall(f, modelsPath, models[i], overwrite, i = failAt)
           ms == [models EXCEPT ![i] = r.object]
       IN IF r.outcome \in {"exit", "error"}
          THEN [fs |-> r.fs, models |-> ms, outcome |-> r.outcome, err |-> r.err]
          ELSE EachSeriesSave(r.fs, ms, i + 1, modelsPath, overwrite, failAt)

Callback(err, models) == [err |-> err, models |-> models]

\* The final callback of async.mapSeries (lines 220-244).  Its err
\* parameter is not read.  mkdirFails: utils.mkDir throws.
MapSeriesDone(models, mkdirFails, failAt) ==
  LET modelsPath == JoinPath(appPath, IF Truthy(options.outputDir)
                                      THEN options.outputDir ELSE DefaultDir)
      needDir    == ~DirExists(fs, modelsPath)
      r == EachSeriesSave(IF needDir THEN MkDir(fs, modelsPath) ELSE fs,
                          models, 1, modelsPath, options.overwrite, failAt)
  IN IF needDir /\ mkdirFails
     THEN /\ fs' = fs
          /\ pc' = "done"
          /\ cbLog' = Append(cbLog, Callback(
                        Error("Unable to create models folder"), <<>>))
     ELSE /\ fs' = r.fs
          /\ pc' = IF r.outcome = "exit" THEN "exited" ELSE "done"
          /\ cbLog' = CASE r.outcome = "exit"  -> cbLog
                        [] r.outcome = "error" ->
                             Append(cbLog, Callback(r.err, <<>>))
                        [] OTHER -> Append(cbLog, Callback(NoError, r.models))


(***************************************************************************)
(* The schema source: what the connector may answer.                       *)
(***************************************************************************)
\* Table names are distinct within the schema asked for.
TableLists ==
  {[i \in 1..Len(ns) |-> [name |-> ns[i]]] :
     ns \in {q \in SeqsUpTo(TableNames, MaxTables) : NoDup(q)}}

KeyedProps ==
  <<[key |-> "userid",
     def |-> [type |-> "String", mysql |-> [columnName |-> "userId"]]]>>
UnkeyedProps ==
  <<[key |-> "userid", def |-> [type |-> "Number", mysql |-> NoObject]]>>

\* models[modelName].definition for a table.
BuiltModels(table) ==
  {[name |-> ClassName(table), properties |-> ps,
    settings |-> SettingsOf(table, Undefined), relations |-> Undefined] :
     ps \in {KeyedProps, UnkeyedProps}}

AllowLists ==
  {NoList, NullList} \cup {ListOf(ns) : ns \in SeqsUpTo(TableNames, MaxTables)}

OptionsGiven ==
  [appPath : {Undefined, AppPath, "/none"},
   dataSource : {Undefined, "DB", "nodb"},
   tablesList : AllowLists,
   overwrite : {JSTrue, Undefined},
   outputDir : {Undefined, OutputDir},
   schema : {Undefined}]

(***************************************************************************)
(* discoverModels, up to the request to the connector (lines 166-190).     *)
(***************************************************************************)
DiscoverModels(opts) ==
  /\ pc = "idle"
  /\ LET a == IF Truthy(opts.appPath)
              THEN setApp(This, opts.appPath)
              ELSE [this |-> This, err |-> NoError]
         d == IF a.err # NoError THEN a
              ELSE IF Truthy(opts.dataSource)
              THEN setDataSource(a.this, opts.dataSource)
              ELSE a
     IN /\ SetThis(d.this)
        /\ IF d.err # NoError
           THEN /\ cbLog' = Append(cbLog, Callback(d.err, <<>>))
                /\ pc' = "done"
                /\ options' = opts
           ELSE IF d.this.dataSource = NoDataSource
           THEN /\ cbLog' = Append(cbLog,
                                   Callback(Error("Data source not set."), <<>>))
                /\ pc' = "done"
                /\ options' = opts
           ELSE /\ cbLog' = cbLog
                /\ pc' = "discovering"
                /\ options' =
                     [opts EXCEPT !.schema = SourceOf(d.this.dataSource).database]
  /\ call' = Returned("discoverModels", <<>>, NoError)
  /\ UNCHANGED <<modelConfig, envVars, discovered, tables, results, pending>>

(***************************************************************************)
(* The callback of discoverModelDefinitions (lines 190-210): the filter,   *)
(* and the start of async.mapSeries, which with no table left runs its     *)
(* final callback at once.                                                 *)
(***************************************************************************)
DiscoverDefinitionsReturn(err, tbls, mkdirFails) ==
  /\ pc = "discovering"
  /\ discovered' = [err |-> err, tables |-> tbls]
  /\ IF err # NoError
     THEN /\ cbLog' = Append(cbLog, Callback(err, <<>>))
          /\ pc' = "done"
          /\ UNCHANGED <<options, tables, results, pending, fs>>
     ELSE LET f == IF HasList(options)
                   THEN FilterTables(tbls, options.tablesList.items, 1)
                   ELSE [kept |-> tbls, list |-> <<>>]
          IN /\ tables' = f.kept
             /\ options' = IF HasList(options)
                           THEN [options EXCEPT !.tablesList = ListOf(f.list)]
                           ELSE options
             /\ results' = <<>>
             /\ IF HasList(options) /\ Len(f.list) > 0
                THEN /\ cbLog' = Append(cbLog, Callback(NotFoundError(f.list), <<>>))
                     /\ pc' = "done"
                     /\ UNCHANGED <<pending, fs>>
                ELSE IF Len(f.kept) = 0
                THEN /\ pending' = 0
                     /\ MapSeriesDone(<<>>, mkdirFails, 0)
                ELSE /\ pending' = 1
                     /\ pc' = "building"
                     /\ UNCHANGED <<cbLog, fs>>
  /\ UNCHANGED <<discVars, regFile, call>>

(***************************************************************************)
(* The callback of discoverAndBuildModels inside async.mapSeries (lines    *)
(* 210-220): async stores the value at the table's index, undefined for a  *)
(* failed build, and on an error or after the last table runs the final    *)
(* callback with (err, results).                                           *)
(***************************************************************************)
\* A variant that requests the next build also after a failed one.
BuildReturn_Continue(err, model, mkdirFails, failAt) ==
  /\ pc = "building"
  /\ LET rs == Append(results, IF err # NoError THEN NoObject ELSE model) IN
       /\ results' = rs
       /\ IF pending < Len(tables)
          THEN /\ pending' = pending + 1
               /\ UNCHANGED <<pc, cbLog, fs>>
          ELSE /\ pending' = 0
               /\ MapSeriesDone(rs, mkdirFails, failAt)
  /\ UNCHANGED <<discVars, regFile, options, discovered, tables, call>>

BuildReturn(err, model, mkdirFails, failAt) ==
  /\ pc = "building"
  /\ LET rs == Append(results, IF err # NoError THEN NoObject ELSE model) IN
       /\ results' = rs
       /\ IF err = NoError /\ pending < Len(tables)
          THEN /\ pending' = pending + 1
               /\ UNCHANGED <<pc, cbLog, fs>>
          ELSE /\ pending' = 0
               /\ MapSeriesDone(rs, mkdirFails, failAt)
  /\ UNCHANGED <<discVars, regFile, options, discovered, tables, call>>

(***************************************************************************)
(* Spec: a Discoverer bound by setApp / setDataSource, then one            *)
(* discoverModels run against the schema source and the file store.        *)
(***************************************************************************)
ExistingCustomer ==
  [name |-> "Customer",
   properties |-> <<[key |-> "legacy",
                     def |-> [type |-> "String", mysql |-> NoObject]]>>,
   settings |-> SettingsOf("Customer", "deny"),
   relations |-> "orders"]

RunStores ==
  {[dirs |-> {}, files |-> NoFiles],
   [dirs |-> {ModelsDir},
    files |-> [p \in {JoinPath(ModelsDir, "Customer")} |-> ExistingCustomer]]}

Init ==
  /\ Constructed
  /\ Idle
  /\ fs \in RunStores
  /\ regFile = NoObject
  /\ call = NoCall

\* The connector's answers.
TablesAnswered ==
  \E tbls \in TableLists, mkdirFails \in BOOLEAN :
    DiscoverDefinitionsReturn(NoError, tbls, mkdirFails)

DiscoveryFailed ==
  DiscoverDefinitionsReturn(Error("ConnectorError"), <<>>, FALSE)

ModelBuilt ==
  /\ pc = "building"
  /\ \E model \in BuiltModels(tables[pending].name),
        mkdirFails \in BOOLEAN, failAt \in 0..Len(tables) :
       BuildReturn(NoError, model, mkdirFails, failAt)

BuildFailed ==
  /\ pc = "building"
  /\ \E mkdirFails \in BOOLEAN, failAt \in 0..Len(tables) :
       BuildReturn(Error("BuildError"), NoObject, mkdirFails, failAt)

Next ==
  \/ \E path \in {AppPath, "/none"} : SetApp(path)
  \/ \E name \in {"DB", "nodb", "memory", Undefined} : SetDataSource(name)
  \/ \E opts \in OptionsGiven : DiscoverModels(opts)
  \/ TablesAnswered
  \/ DiscoveryFailed
  \/ ModelBuilt
  \/ BuildFailed

Spec == Init /\ [][Next]_vars


(***************************************************************************)
(* Properties of a discoverModels run, checked under Spec.                 *)
(***************************************************************************)
\* The last call made is one of the synchronous method `op`.
IsCall(c, op) == c.outcome \in {"returned", "threw"} /\ c.op = op

Ended == pc \in {"done", "exited"}

\* The step in which a build request is answered with an error.
BuildFailsNow ==
  /\ pc = "building"
  /\ Len(results') = Len(results) + 1
  /\ results'[Len(results')] = NoObject

\* The step in which the connector answers the table list.
TablesAnsweredNow ==
  /\ pc = "discovering"
  /\ pc' # "discovering"
  /\ discovered'.err = NoError

\* C1 as stated: when the build of a table fails, the run ends with that
\* build error as the callback's error and the persisting phase does not
\* start: no directory is created and no file is written.
C1_BuildFailureAborts ==
  [][BuildFailsNow =>
       /\ pc' = "done"
       /\ cbLog' = Append(cbLog, Callback(Error("BuildError"), <<>>))
       /\ fs' = fs]_vars

\* C2 as stated: a run that has ended has invoked the caller's callback
\* exactly once, with an error when a step failed and with one model per
\* kept table otherwise.
C2_CallbackExactlyOnce ==
  Ended =>
    /\ Len(cbLog) = 1
    /\ (discovered.err # NoError \/ NoObject \in Range(results))
         => cbLog[1].err # NoError
    /\ cbLog[1].err = NoError => Len(cbLog[1].models) = Len(tables)

\* The names of `list` that no table of `tbls` has, in the order of `list`.
Missing(list, tbls) ==
  SelectSeq(list, LAMBDA n : \A i \in 1..Len(tbls) : tbls[i].name # n)

\* C5: when the allow-list (an ordered set of names) holds a name that no
\* discovered table has, the run ends at once with the error 'Tables not
\* found' naming exactly the names absent from discovery, in the order of
\* the list, whether or not other names matched; no build is requested and
\* the file store is left as it was.
C5_TablesNotFound ==
  [][(/\ TablesAnsweredNow
      /\ HasList(options)
      /\ NoDup(options.tablesList.items)
      /\ Missing(options.tablesList.items, discovered'.tables) # <<>>) =>
       /\ pc' = "done"
       /\ cbLog' = Append(cbLog, Callback(
            [msg |-> "Tables not found",
             names |-> Missing(options.tablesList.items, discovered'.tables)],
            <<>>))
       /\ results' = <<>>
       /\ pending' = 0
       /\ fs' = fs]_vars

C5_Witness ==
  /\ pc = "done"
  /\ Len(cbLog) = 1
  /\ cbLog[1].err = [msg |-> "Tables not found", names |-> <<"Orders">>]
  /\ Len(discovered.tables) = 2
  /\ tables = <<[name |-> "Customer"]>>
  /\ fs.dirs = {}

\* C6: the filter keeps discovery order: with tablesList undefined or null
\* the run keeps every discovered table, and with an array it keeps exactly
\* the discovered tables whose name is in the array.
C6_FilterKeepsDiscoveryOrder ==
  [][TablesAnsweredNow =>
       tables' = IF HasList(options)
                 THEN SelectSeq(discovered'.tables,
                        LAMBDA t : t.name \in Range(options.tablesList.items))
                 ELSE discovered'.tables]_vars

C6_Witness ==
  /\ pc = "building"
  /\ HasList(options)
  /\ discovered.tables = <<[name |-> "Orders"], [name |-> "Customer"]>>
  /\ tables = <<[name |-> "Customer"]>>

\* The run has ended with the callback reporting success.
Succeeded ==
  pc = "done" /\ Len(cbLog) = 1 /\ cbLog[1].err = NoError

\* C13: a run that ends in success hands the callback one model per table
\* kept by the filter, in the order of those tables: the i-th model is the
\* one built for the i-th table (under the table's name), whether its file
\* was written or skipped.
C13_ReturnsEveryModel ==
  Succeeded =>
    LET ms == cbLog[1].models IN
      /\ Len(ms) = Len(tables)
      /\ Len(results) = Len(tables)
      /\ \A i \in 1..Len(tables) :
           /\ results[i] # NoObject
           /\ ms[i] # NoObject
           /\ ms[i].settings = results[i].settings
           /\ ms[i].settings.mysql.table = tables[i].name
           /\ ms[i].name = tables[i].name

\* Success with two models, the first written to a new file and the second
\* skipped because its file existed and overwrite was not requested.
C13_Witness ==
  /\ Succeeded
  /\ options.overwrite = Undefined
  /\ tables = <<[name |-> "PaymentMethod"], [name |-> "Customer"]>>
  /\ Len(cbLog[1].models) = 2
  /\ cbLog[1].models[2].name = "Customer"
  /\ FileAt(fs, JoinPath(ModelsDir, "Customer")) = ExistingCustomer
  /\ FileAt(fs, JoinPath(ModelsDir, "PaymentMethod")) # NoFile

\* The step runs the persisting phase: the final callback of mapSeries.
PersistsNow ==
  /\ pc \in {"discovering", "building"}
  /\ pc' \in {"done", "exited"}
  /\ discovered'.err = NoError

\* The definition file of a model handed to the persisting phase.
TargetOf(m) ==
  JoinPath(JoinPath(appPath, IF Truthy(options.outputDir)
                             THEN options.outputDir ELSE DefaultDir),
           ForcedName(m))

\* Saving the model cannot fail on the model itself: it is a definition and
\* every property carries database-column metadata.
Savable(m) ==
  /\ m # NoObject
  /\ \A k \in 1..Len(m.properties) : m.properties[k].def.mysql # NoObject

\* C14: in the persisting phase the files written are those of a prefix of
\* the models, in order: when the file of the j-th model is written, every
\* model up to the j-th was savable and every earlier model's file was
\* written or rightly skipped (a failed save, by a file error or by a
\* property without column metadata, is followed by no write), and no file
\* other than a model's definition file changes.
C14_NoWriteAfterFailedSave ==
  [][PersistsNow =>
       LET ms == results'
           Changed(m) == FileAt(fs', TargetOf(m)) # FileAt(fs, TargetOf(m))
       IN /\ \A j \in 1..Len(ms) :
               (ms[j] # NoObject /\ Changed(ms[j])) =>
                 \A i \in 1..j :
                   /\ Savable(ms[i])
                   /\ i < j =>
                        \/ Changed(ms[i])
                        \/ ~ShouldWrite(FileExists(fs, TargetOf(ms[i])),
                                        options.overwrite)
          /\ \A q \in Paths :
               FileAt(fs', q) # FileAt(fs, q) =>
                 \E j \in 1..Len(ms) : ms[j] # NoObject /\ q = TargetOf(ms[j])]_vars

\* A run of two models in which the first was saved and writing the second
\* failed.
C14_Witness ==
  /\ pc = "done"
  /\ Len(cbLog) = 1 /\ cbLog[1].err = Error("IOError")
  /\ tables = <<[name |-> "Orders"], [name |-> "PaymentMethod"]>>
  /\ Len(results) = 2 /\ Savable(results[2])
  /\ FileAt(fs, JoinPath(ModelsDir, "Orders")) # NoFile
  /\ FileAt(fs, JoinPath(ModelsDir, "PaymentMethod")) = NoFile

\* A run of two models that exited on the first, with nothing written.
C14_WitnessExit ==
  /\ pc = "exited"
  /\ Len(results) = 2
  /\ ~Savable(results[1]) /\ Savable(results[2])
  /\ fs.files = NoFiles

\* The build requests made so far are those of the tables 1..n, each but
\* the last answered, and each answer before the last a model.
RequestedInOrder ==
  /\ pending \in 0..Len(tables)
  /\ pending > 0 =>
       /\ pc = "building"
       /\ Len(results) = pending - 1
       /\ \A i \in 1..Len(results) : results[i] # NoObject
  /\ pending = 0 =>
       /\ Len(results) <= Len(tables)
       /\ \A i \in 1..(Len(results) - 1) : results[i] # NoObject
       /\ Len(results) < Len(tables) =>
            (\/ results = <<>>
             \/ results[Len(results)] = NoObject)

\* C15: at most one build request is outstanding (the table at `pending`):
\* a request is made for the first kept table when the table list is
\* answered, and for the next table in the step in which the previous
\* build is answered with a model; the answers so far are those of the
\* tables before it, in order, and after a failed build no request is made.
C15_OneBuildAtATime ==
  /\ []RequestedInOrder
  /\ [][pending' \notin {pending, 0} =>
          /\ pending' = pending + 1
          /\ pending = 0 => (pc = "discovering" /\ results' = <<>>)
          /\ pending > 0 =>
               /\ results' = Append(results, results'[pending])
               /\ results'[pending] # NoObject]_vars

\* The second build requested after the first was answered with a model.
C15_Witness ==
  /\ pc = "building" /\ pending = 2
  /\ Len(tables) = 2
  /\ Len(results) = 1 /\ results[1] # NoObject

\* The first of two builds failed and the second was never requested.
C15_WitnessFailed ==
  /\ Ended /\ pending = 0
  /\ Len(tables) = 2
  /\ results = <<NoObject>>

\* setDataSource(name) on an object bound to application `a` has to fail:
\* no name, no application, no data source of that name ignoring case, or a
\* matching data source without discovery capability.
MustRefuse(a, name) ==
  \/ name \in {Undefined, Null, ""}
  \/ a = NoObject
  \/ \A src \in Range(a.dataSources) :
       ToLowerCase(src.key) = ToLowerCase(name) => ~src.discovery

\* The step is a discoverModels call.
DiscoverModelsNow == pc = "idle" /\ pc' # "idle"

\* C16: setDataSource(name) throws exactly when the name is missing, no
\* application is bound, no data source matches the name ignoring case, or
\* the match lacks discovery capability, and a call that throws leaves
\* dataSource and dsName as they were; discoverModels does the same with
\* options.dataSource, and with no data source bound it ends with an error
\* without a request to the schema source.
C16_SetDataSourceFailures ==
  [][/\ IsCall(call', "setDataSource") =>
          /\ call'.outcome = "threw" <=> MustRefuse(app, call'.arg[1])
          /\ call'.outcome = "threw" =>
               (dataSource' = dataSource /\ dsName' = dsName)
          /\ call'.outcome = "returned" =>
               /\ dsName' = call'.arg[1]
               /\ dataSource'.app = appPath
               /\ ToLowerCase(dataSource'.key) = ToLowerCase(call'.arg[1])
               /\ SourceOf(dataSource').discovery
     /\ DiscoverModelsNow =>
          /\ (Truthy(options'.dataSource)
                /\ MustRefuse(app', options'.dataSource)) =>
               (dataSource' = dataSource /\ dsName' = dsName /\ pc' = "done")
          /\ dataSource' = NoDataSource => pc' = "done"
          /\ pc' = "done" =>
               /\ Len(cbLog') = 1 /\ cbLog'[1].err # NoError
               /\ pending' = 0 /\ discovered' = NoReply
          /\ pc' \in {"done", "discovering"}]_vars

\* setDataSource refused for a connector without discovery, the data source
\* bound before still bound.
C16_Witness ==
  /\ IsCall(call, "setDataSource") /\ call.outcome = "threw"
  /\ call.arg = <<"memory">>
  /\ call.err = Error("Data source connector do not support discovery.")
  /\ dsName = "DB" /\ dataSource = [app |-> AppPath, key |-> "db"]

\* discoverModels ended for want of a bound data source.
C16_WitnessNotSet ==
  /\ pc = "done" /\ dataSource = NoDataSource /\ appPath = AppPath
  /\ cbLog = <<Callback(Error("Data source not set."), <<>>)>>
  /\ discovered = NoReply

\* C17 as stated: from the discoverModels call on, the tablesList of the
\* caller's options object holds the names it held when it was passed.
C17_CallerListKept ==
  [][pc # "idle" => options'.tablesList = options.tablesList]_vars


(***************************************************************************)
(* The registry (server/model-config.json): a map from a key to an entry.  *)
(* A model's entry holds dataSource, public and whatever else was written  *)
(* by hand (options); `_meta` is the reserved entry that is no model.      *)
(***************************************************************************)
RegistryNames == {"Foo", "Bar"}
MetaEntry == [x |-> 1]
Entry(ds, public, opt) == [dataSource |-> ds, public |-> public, options |-> opt]

\* The registry file of each application before any call.
RegistryFiles ==
  [a \in {AppPath, OtherAppPath} |->
     IF a = AppPath
     THEN [_meta |-> MetaEntry, Foo |-> Entry("db1", JSTrue, "strict")]
     ELSE [_meta |-> MetaEntry]]

\* The models handed to addModel: a name and isPublic.
ModelArgs == [name : RegistryNames, isPublic : {JSTrue, JSFalse, Undefined}]

(***************************************************************************)
(* Discoverer.prototype.loadModelConfiguration                             *)
(***************************************************************************)
loadModelConfiguration(path, files) ==
  IF ~Truthy(path)
  THEN [config |-> NoObject, err |-> Error("Application not set.")]
  ELSE [config |-> files[path], err |-> NoError]

(***************************************************************************)
(* Discoverer.prototype.addModel: answers the registry after the call and  *)
(* the error thrown.                                                       *)
(***************************************************************************)
\* model.isPublic || false
PublicOf(model) == IF Truthy(model.isPublic) THEN model.isPublic ELSE JSFalse

\* A variant that inserts a missing entry and leaves a present one alone.
addModel_InsertOnly(config, ds, model) ==
  IF config = NoObject
  THEN [config |-> config, err |-> Error("Model configuration not loaded.")]
  ELSE IF model.name \notin DOMAIN config
  THEN [config |-> [k \in DOMAIN config \cup {model.name} |->
                      IF k = model.name
                      THEN Entry(ds, PublicOf(model), Undefined)
                      ELSE config[k]],
        err |-> NoError]
  ELSE [config |-> config, err |-> NoError]

addModel(config, ds, model) ==
  IF config = NoObject
  THEN [config |-> config, err |-> Error("Model configuration not loaded.")]
  ELSE IF model.name \notin DOMAIN config
  THEN [config |-> [k \in DOMAIN config \cup {model.name} |->
                      IF k = model.name
                      THEN Entry(ds, PublicOf(model), Undefined)
                      ELSE config[k]],
        err |-> NoError]
  ELSE [config |-> [config EXCEPT ![model.name].dataSource = ds,
                                  ![model.name].public = PublicOf(model)],
        err |-> NoError]

(***************************************************************************)
(* Discoverer.prototype.updateModels: addModel for each model in turn; the *)
(* first throw ends the loop.                                              *)
(***************************************************************************)
RECURSIVE updateModels(_, _, _, _)
updateModels(config, ds, newModels, i) ==
  IF i > Len(newModels) THEN [config |-> config, err |-> NoError]
  ELSE LET r == addModel(config, ds, newModels[i]) IN
    IF r.err # NoError THEN r
    ELSE updateModels(r.config, ds, newModels, i + 1)

LoadModelConfiguration ==
  /\ pc = "idle"
  /\ LET r == loadModelConfiguration(appPath, regFile) IN
       /\ modelConfig' = IF r.err = NoError THEN r.config ELSE modelConfig
       /\ call' = Returned("loadModelConfiguration", <<>>, r.err)
  /\ UNCHANGED <<app, appPath, dsName, dataSource, envVars, runVars>>

AddModel(model) ==
  /\ pc = "idle"
  /\ LET r == addModel(modelConfig, dsName, model) IN
       /\ modelConfig' = r.config
       /\ call' = Returned("addModel", <<model>>, r.err)
  /\ UNCHANGED <<app, appPath, dsName, dataSource, envVars, runVars>>

UpdateModels(newModels) ==
  /\ pc = "idle"
  /\ LET r == updateModels(modelConfig, dsName, newModels, 1) IN
       /\ modelConfig' = r.config
       /\ call' = Returned("updateModels", newModels, r.err)
  /\ UNCHANGED <<app, appPath, dsName, dataSource, envVars, runVars>>

(***************************************************************************)
(* SpecRegistry: the registry calls on a Discoverer bound by setApp and    *)
(* setDataSource.                                                          *)
(***************************************************************************)
InitRegistry ==
  /\ Constructed
  /\ Idle
  /\ fs = [dirs |-> {}, files |-> NoFiles]
  /\ regFile = RegistryFiles
  /\ call = NoCall

NextRegistry ==
  \/ \E path \in {AppPath, OtherAppPath, "/none"} : SetApp(path)
  \/ \E name \in {"db", "DB", "nodb"} : SetDataSource(name)
  \/ LoadModelConfiguration
  \/ \E model \in ModelArgs : AddModel(model)
  \/ \E newModels \in SeqsUpTo(ModelArgs, MaxModels) : UpdateModels(newModels)

SpecRegistry == InitRegistry /\ [][NextRegistry]_vars

\* The last model of `ms` named n.
LastNamed(ms, n) ==
  ms[CHOOSE i \in 1..Len(ms) :
       ms[i].name = n /\ \A j \in (i + 1)..Len(ms) : ms[j].name # n]

\* C10: with a loaded registry, addModel(m) leaves the entry of m.name with
\* dataSource = the bound data source name and public = m.isPublic (false
\* when unspecified), inserted when absent and updated in both fields when
\* present, and leaves every other entry, `_meta` included, as it was;
\* updateModels does so for every model of its argument.
C10_AddModelSetsEntry ==
  [][(/\ call'.outcome = "returned"
      /\ call'.op \in {"addModel", "updateModels"}
      /\ modelConfig # NoObject) =>
       LET ms    == call'.arg
           names == {ms[i].name : i \in 1..Len(ms)}
       IN /\ DOMAIN modelConfig' = DOMAIN modelConfig \cup names
          /\ \A n \in names :
               /\ modelConfig'[n].dataSource = dsName
               /\ modelConfig'[n].public =
                    (IF LastNamed(ms, n).isPublic = JSTrue
                     THEN JSTrue ELSE JSFalse)
               /\ modelConfig'[n].options =
                    (IF n \in DOMAIN modelConfig
                     THEN modelConfig[n].options ELSE Undefined)
          /\ \A k \in DOMAIN modelConfig \ names :
               modelConfig'[k] = modelConfig[k]]_vars

C10_Witness ==
  /\ call.outcome = "returned" /\ call.op = "updateModels"
  /\ Len(call.arg) = 2
  /\ call.arg[1].name = "Bar" /\ call.arg[1].isPublic = Undefined
  /\ call.arg[2].name = "Foo" /\ call.arg[2].isPublic = JSFalse
  /\ dsName = "DB"
  /\ modelConfig = [_meta |-> MetaEntry,
                    Foo |-> Entry("DB", JSFalse, "strict"),
                    Bar |-> Entry("DB", JSFalse, Undefined)]

\* The application whose registry file a registry in memory was read from:
\* under SpecRegistry the files never change, the hand-written entry Foo
\* (options "strict") is in the file of AppPath only, and no call removes
\* an entry or changes its options.
LoadedFrom(config) ==
  IF "Foo" \in DOMAIN config /\ config.Foo.options = "strict"
  THEN AppPath ELSE OtherAppPath

\* C19 as stated: a bound data source is a data source of the application
\* bound now, and a loaded registry was read from the path of the
\* application bound now.
C19_BoundStateCoherent ==
  /\ dataSource # NoDataSource => dataSource.app = appPath
  /\ modelConfig # NoObject => LoadedFrom(modelConfig) = appPath

\* C20 as stated: after addModel on an object with a bound data source, the
\* entry of the model names the key under which that data source is
\* registered in its application.
C20_RecordsRegisteredKey ==
  (/\ call.outcome = "returned" /\ call.op = "addModel"
   /\ dataSource # NoDataSource) =>
    modelConfig[call.arg[1].name].dataSource = dataSource.key


(***************************************************************************)
(* Discoverer.prototype.saveModelConfiguration: answers the registry files *)
(* after the call and the error thrown.  The file holds the JSON text of   *)
(* this.modelConfig, which loadModelConfiguration parses back to the same  *)
(* value.                                                                  *)
(***************************************************************************)
\* A variant without the two checks.
saveModelConfiguration_Unchecked(path, config, files) ==
  [files |-> [a \in DOMAIN files |->
                IF a = path \/ ~Truthy(path) THEN config ELSE files[a]],
   err |-> NoError]

saveModelConfiguration(path, config, files) ==
  IF ~Truthy(path)
  THEN [files |-> files, err |-> Error("Application not set.")]
  ELSE IF config = NoObject
  THEN [files |-> files, err |-> Error("Model configuration not loaded.")]
  ELSE [files |-> [files EXCEPT ![path] = config], err |-> NoError]

SaveModelConfiguration ==
  /\ pc = "idle"
  /\ LET r == saveModelConfiguration(appPath, modelConfig, regFile) IN
       /\ regFile' = r.files
       /\ call' = Returned("saveModelConfiguration", <<>>, r.err)
  /\ UNCHANGED <<discVars, fs, runVars>>

(***************************************************************************)
(* SpecSession: a caller using the whole interface of one Discoverer: the  *)
(* binding calls, the registry calls, saveModel, and a discoverModels run. *)
(***************************************************************************)
SessionModels == {[name |-> "Bar", isPublic |-> Undefined]}

SessionOptions ==
  {[EmptyOptions EXCEPT !.overwrite = o, !.dataSource = d] :
     o \in {JSTrue, Undefined}, d \in {Undefined, "DB"}}

InitSession ==
  /\ Constructed
  /\ Idle
  /\ fs \in RunStores
  /\ regFile = RegistryFiles
  /\ call = NoCall

SessionSaveModel ==
  /\ pc = "idle"
  /\ \E model \in BuiltModels("Customer"), overwrite \in {JSTrue, Undefined} :
       SaveModel(ModelsDir, model, overwrite, FALSE)

NextSession ==
  \/ \E path \in {AppPath, "/none"} : SetApp(path)
  \/ \E name \in {"DB", Undefined} : SetDataSource(name)
  \/ LoadModelConfiguration
  \/ \E model \in SessionModels : AddModel(model)
  \/ \E newModels \in SeqsUpTo(SessionModels, MaxModels) :
       UpdateModels(newModels)
  \/ SaveModelConfiguration
  \/ SessionSaveModel
  \/ \E opts \in SessionOptions : DiscoverModels(opts)
  \/ TablesAnswered
  \/ DiscoveryFailed
  \/ ModelBuilt
  \/ BuildFailed

SpecSession == InitSession /\ [][NextSession]_vars

\* C11: the registry file changes only in a saveModelConfiguration call that
\* returns, which leaves the bound application's file holding the registry
\* in memory; and a saveModelConfiguration call made with no application
\* bound or no registry loaded throws and leaves every registry file as it
\* was.
C11_RegistryWrittenOnlyBySave ==
  [][/\ regFile' # regFile =>
          /\ IsCall(call', "saveModelConfiguration")
          /\ call'.outcome = "returned"
     /\ (IsCall(call', "saveModelConfiguration") /\ call' # call) =>
          IF appPath = Null \/ modelConfig = NoObject
          THEN call'.outcome = "threw" /\ regFile' = regFile
          ELSE /\ call'.outcome = "returned"
               /\ regFile' = [regFile EXCEPT ![appPath] = modelConfig]]_vars

\* A registry saved after addModel, in a session in which saveModel wrote a
\* definition file.
C11_Witness ==
  /\ IsCall(call, "saveModelConfiguration") /\ call.outcome = "returned"
  /\ regFile[AppPath] # RegistryFiles[AppPath]
  /\ regFile[AppPath].Bar.dataSource = "DB"
  /\ regFile[OtherAppPath] = RegistryFiles[OtherAppPath]
  /\ FileAt(fs, JoinPath(ModelsDir, "Customer")) \notin {NoFile, ExistingCustomer}

\* A saveModelConfiguration call refused for want of a loaded registry.
C11_WitnessRefused ==
  /\ IsCall(call, "saveModelConfiguration") /\ call.outcome = "threw"
  /\ appPath = AppPath /\ modelConfig = NoObject

=============================================================================
